---- MODULE Spec2Model ----
(***************************************************************************)
(* pyo3-macros-backend/src/method.rs: FnSpec::parse, the analysis of one   *)
(* annotated method declaration of a #[pymethods] block into an FnSpec     *)
(* (the call specification) or a syn::Error.                               *)
(*                                                                         *)
(* A declaration is a syn::Signature (name, parameter list, return type),  *)
(* the list of attributes written on it, and the PyFunctionOptions of the  *)
(* caller.  Option<T> is modelled as a sequence of length at most one,     *)
(* text as a sequence of characters, a syn::Ident as its text with the     *)
(* raw-identifier marker (r#) kept apart, a Span as the syntax element it  *)
(* points at.                                                              *)
(***************************************************************************)
EXTENDS Naturals, Sequences, FiniteSets

VARIABLES sig, meth_attrs, options, declared_attrs, result, pc

vars == <<sig, meth_attrs, options, declared_attrs, result, pc>>

\* The size of the largest declaration analysed: its number of attributes
\* plus its number of parameters.
MaxSize == 3

----
\* Option<T>
None == <<>>
Some(x) == <<x>>
is_none(o) == o = <<>>
is_some(o) == o # <<>>
unwrap(o) == o[1]
unwrap_or(o, d) == IF o = <<>> THEN d ELSE o[1]

\* syn::Ident: text, and whether it is written as a raw identifier (r#text).
Ident(text) == [raw |-> FALSE, text |-> text]
RawIdent(text) == [raw |-> TRUE, text |-> text]
\* syn::ext::IdentExt::unraw: the identifier without its r#.
unraw(ident) == [raw |-> FALSE, text |-> ident.text]
\* Ident::to_string: a raw identifier prints with its r#.
to_string(ident) == IF ident.raw THEN <<"r", "#">> \o ident.text ELSE ident.text
\* str::starts_with
starts_with(s, prefix) ==
    /\ Len(s) >= Len(prefix)
    /\ SubSeq(s, 1, Len(prefix)) = prefix
\* &s[n..]
str_from(s, n) == SubSeq(s, n + 1, Len(s))

\* Span: the syntax element an error points at.
Span(at, idx) == [at |-> at, idx |-> idx]
call_site == Span("call_site", 0)

\* syn::Result / a panic of the macro.
Ok(v) == [tag |-> "Ok", val |-> Some(v), err |-> None]
Err(span, msg) == [tag |-> "Err", val |-> None, err |-> Some([msg |-> msg, span |-> span])]
Panic(msg) == [tag |-> "Panic", val |-> None, err |-> Some([msg |-> msg, span |-> call_site])]
is_ok(r) == r.tag = "Ok"

----
\* Diagnostics of method.rs (the backquotes of the messages are left out).
IMPL_TRAIT_ERR == "Python functions cannot have impl Trait arguments"
SECOND_TYPE_ERR == "cannot specify a second method type"
INIT_ERR == "#[init] is disabled since PyO3 0.9.0"
INNER_ERR == "inner attribute is not supported for setter and getter"
ONE_VALUE_ERR == "setter/getter requires one value"
NAME_ONCE_ERR == "name may only be specified once"
STR_VALUE_ERR == "setter/getter attribute requires str value"
PROPERTY_NAME_ERR == "expected ident or string literal for property name"
NAME_NEW_ERR == "name not allowed with #[new]"
NAME_CALL_ERR == "name not allowed with #[call]"
TEXT_SIG_NEW_ERR == "text_signature not allowed on __new__; if you want to add a signature on __new__, put it on the struct definition instead"
TEXT_SIG_ERR == "text_signature not allowed with this method type"
CLASSATTR_ARGS_ERR == "class attribute methods cannot take arguments"
RECEIVER_CALL_ERR == "expected receiver for #[call]"
RECEIVER_GETTER_ERR == "expected receiver for #[getter]"
RECEIVER_SETTER_ERR == "expected receiver for #[setter]"
RECEIVER_FN_ERR == "static method needs #[staticmethod] attribute"
UNEXPECTED_RECEIVER_ERR == "unexpected receiver"
UNSUPPORTED_ARG_ERR == "unsupported argument"

----
\* A syn::Attribute after attr.parse_meta(): meta is "Path" (#[tag]), "List"
\* (#[tag(v, ...)]), "NameValue" (#[tag = "..."]) or "Malformed" (parse_meta
\* fails); path is the tag; style is "Outer" (#[..]) or "Inner" (#![..]).
Attr(meta, path, nested, style) ==
    [meta |-> meta, path |-> path, nested |-> nested, style |-> style]
\* A syn::NestedMeta of a list: kind is "Path" (a one-segment path), "Str" (a
\* string literal), "Lit" (another literal) or "Other"; text is its text.
Nested(kind, text) == [kind |-> kind, text |-> text]

\* What proc_macro2 accepts as the text of an identifier.
Digits == {"0", "1", "2", "3", "4", "5", "6", "7", "8", "9"}
is_ident_text(text) == text # <<>> /\ text[1] \notin Digits
\* syn::Ident::new panics on text that is no identifier.
Ident_new(text) ==
    IF is_ident_text(text) THEN Ok(Ident(text)) ELSE Panic("Ident::new")

\* The running state of parse_method_attributes' loop.
MethodAttributes(ty, python_name, new_attrs) ==
    [ty |-> ty, python_name |-> python_name, new_attrs |-> new_attrs]

\* set_ty! that lets a later method type replace an earlier one.
set_ty_replacing(st, new_ty, span) == Ok([st EXCEPT !.ty = Some(new_ty)])

\* set_ty!: ty.replace(new_ty) must find no method type set before.
set_ty(st, new_ty, span) ==
    IF is_none(st.ty)
    THEN Ok([st EXCEPT !.ty = Some(new_ty)])
    ELSE Err(span, SECOND_TYPE_ERR)

push_attr(st, attr) == Ok([st EXCEPT !.new_attrs = Append(@, attr)])

\* The syn::Meta::Path arm of parse_method_attributes.
parse_meta_path(st, attr, i) ==
    LET name == attr.path
        span == Span("attr_path", i)
    IN  IF name \in {"new", "__new__"} THEN set_ty(st, "New", span)
        ELSE IF name \in {"init", "__init__"} THEN Err(span, INIT_ERR)
        ELSE IF name \in {"call", "__call__"} THEN set_ty(st, "Call", span)
        ELSE IF name = "classmethod" THEN set_ty(st, "ClassMethod", span)
        ELSE IF name = "staticmethod" THEN set_ty(st, "StaticMethod", span)
        ELSE IF name = "classattr" THEN set_ty(st, "ClassAttribute", span)
        ELSE IF name \in {"setter", "getter"}
        THEN IF attr.style = "Inner" THEN Err(Span("attr", i), INNER_ERR)
             ELSE IF name = "setter" THEN set_ty(st, "Setter", span)
             ELSE set_ty(st, "Getter", span)
        ELSE push_attr(st, attr)

\* python_name = match nested.pop().unwrap().into_value() { ... }: the property
\* name of #[getter(v)] / #[setter(v)].  In the last arm the list is empty
\* after the pop, so nested.first().unwrap() panics.
property_name(st, v, i) ==
    IF v.kind = "Path" THEN Ok([st EXCEPT !.python_name = Some(Ident(v.text))])
    ELSE IF v.kind = "Str"
    THEN IF is_ident_text(v.text)
         THEN Ok([st EXCEPT !.python_name = Some(Ident(v.text))])
         ELSE Err(Span("nested", i), "LitStr::parse")
    ELSE IF v.kind = "Lit" THEN Err(Span("nested", i), STR_VALUE_ERR)
    ELSE Panic("Option::unwrap on None")

\* The syn::Meta::List arm that reads the tag and not the values.
parse_meta_list_as_path(st, attr, i) == parse_meta_path(st, attr, i)

\* The syn::Meta::List arm of parse_method_attributes.  (#[args(...)] goes to
\* PyFunctionSignature::from_meta of crate::pyfunction and fills FnSpec.attrs;
\* the argument attributes are not part of this model.)
parse_meta_list(st, attr, i) ==
    LET path == attr.path
        span == Span("attr_path", i)
    IN  IF path = "new" THEN set_ty(st, "New", span)
        ELSE IF path = "init" THEN Err(span, INIT_ERR)
        ELSE IF path = "call" THEN set_ty(st, "Call", span)
        ELSE IF path \in {"setter", "getter"}
        THEN IF attr.style = "Inner" THEN Err(Span("attr", i), INNER_ERR)
             ELSE IF Len(attr.nested) # 1 THEN Err(Span("attr", i), ONE_VALUE_ERR)
             ELSE LET r == IF path = "setter" THEN set_ty(st, "Setter", span)
                           ELSE set_ty(st, "Getter", span)
                  IN  IF ~is_ok(r) THEN r
                      ELSE IF is_some(st.python_name)
                      THEN Err(Span("python_name", 0), NAME_ONCE_ERR)
                      ELSE property_name(unwrap(r.val), attr.nested[1], i)
        ELSE IF path = "args" THEN Ok(st)
        ELSE push_attr(st, attr)

\* The body of the loop `for attr in attrs.drain(..)`, for the i-th attribute.
parse_attr(st, attr, i) ==
    IF attr.meta = "Malformed" THEN Err(Span("attr", i), "parse_meta")
    ELSE IF attr.meta = "Path" THEN parse_meta_path(st, attr, i)
    ELSE IF attr.meta = "List" THEN parse_meta_list(st, attr, i)
    ELSE push_attr(st, attr)

RECURSIVE drain_attrs(_, _, _)
drain_attrs(attrs, i, st) ==
    IF i > Len(attrs) THEN Ok(st)
    ELSE LET r == parse_attr(st, attrs[i], i)
         IN  IF is_ok(r) THEN drain_attrs(attrs, i + 1, unwrap(r.val)) ELSE r

\* parse_method_attributes: Ok(MethodAttributes), whose new_attrs is what
\* `*attrs = new_attrs` leaves in the caller's list, or the first error.
parse_method_attributes(attrs, python_name) ==
    drain_attrs(attrs, 1, MethodAttributes(None, python_name, <<>>))


----
\* A syn::FnArg of the signature: kind "Receiver" (self, &self, &mut self;
\* mutable is recv.mutability.is_some()) or "Typed" (pat: ty); ty is the shape
\* of the declared type ("ImplTrait" for impl Trait, "Python" for the
\* runtime's context token Python<'_>, "Path" for any other type); pat is
\* "Ident" for a plain name and "Other" for any other pattern.
SynArg(kind, mutable, ty, pat, name) ==
    [kind |-> kind, mutable |-> mutable, ty |-> ty, pat |-> pat, name |-> name]

\* enum SelfType
SelfType(kind, mutable, span) == [kind |-> kind, mutable |-> mutable, span |-> span]
SelfType_Receiver(mutable) == SelfType("Receiver", mutable, call_site)
SelfType_TryFromPyCell(span) == SelfType("TryFromPyCell", FALSE, span)

\* enum FnType: kind, and the SelfType of the kinds that carry one.
FnType(kind, self) == [kind |-> kind, self |-> self]

\* utils::is_python: the parameter's type is the runtime's context token.
is_python(ty) == ty = "Python"

\* FnArg::parse of the i-th parameter.  (The parameters carry no #[pyo3(..)]
\* attributes here, so PyFunctionArgPyO3Attributes::from_attrs has nothing to
\* read; by_ref, mutability and optional of the FnArg are left out.)
FnArg_parse(arg, i) ==
    IF arg.kind = "Receiver" THEN Err(Span("arg", i), UNEXPECTED_RECEIVER_ERR)
    ELSE IF arg.ty = "ImplTrait" THEN Err(Span("arg_ty", i), IMPL_TRAIT_ERR)
    ELSE IF arg.pat # "Ident" THEN Err(Span("arg_pat", i), UNSUPPORTED_ARG_ERR)
    ELSE Ok([name |-> arg.name, ty |-> arg.ty, py |-> is_python(arg.ty)])

\* get_return_info
get_return_info(output) == IF output = "Default" THEN "_" ELSE output

\* parse_method_receiver that takes only self for a receiver.
parse_method_receiver_self_only(arg) ==
    IF arg.kind = "Receiver" THEN Ok(SelfType_Receiver(arg.mutable))
    ELSE IF arg.ty = "ImplTrait" THEN Err(Span("arg_ty", 1), IMPL_TRAIT_ERR)
    ELSE Err(Span("arg", 1), RECEIVER_FN_ERR)

\* parse_method_receiver of the first parameter.
parse_method_receiver(arg) ==
    IF arg.kind = "Receiver" THEN Ok(SelfType_Receiver(arg.mutable))
    ELSE IF arg.ty = "ImplTrait" THEN Err(Span("arg_ty", 1), IMPL_TRAIT_ERR)
    ELSE Ok(SelfType_TryFromPyCell(Span("arg_ty", 1)))

\* parse_receiver that takes a signature without parameters.
parse_receiver_lenient(s, msg) ==
    IF s.inputs = <<>> THEN Ok(SelfType_Receiver(FALSE))
    ELSE parse_method_receiver(s.inputs[1])

\* The closure parse_receiver of parse_fn_type.
parse_receiver(s, msg) ==
    IF s.inputs = <<>> THEN Err(Span("sig", 0), msg)
    ELSE parse_method_receiver(s.inputs[1])

\* strip_fn_name that strips nothing.
strip_fn_name_never(s, prefix) == Ok(None)

\* The closure strip_fn_name of parse_fn_type: Ok(Option<Ident>), or the
\* panic of Ident::new.
strip_fn_name(s, prefix) ==
    LET ident == to_string(unraw(s.ident))
    IN  IF starts_with(ident, prefix)
        THEN LET r == Ident_new(str_from(ident, Len(prefix)))
             IN  IF is_ok(r) THEN Ok(Some(unwrap(r.val))) ELSE r
        ELSE Ok(None)

GET_PREFIX == <<"g", "e", "t", "_">>
SET_PREFIX == <<"s", "e", "t", "_">>

\* What parse_fn_type hands back: (fn_type, skip_first_arg), and python_name,
\* which it may set.
FnTypeInfo(fn_type, skip_first_arg, python_name) ==
    [fn_type |-> fn_type, skip_first_arg |-> skip_first_arg, python_name |-> python_name]

\* A kind that carries a SelfType: FnType::kind(parse_receiver(msg)?), true.
with_receiver(s, kind, msg, python_name) ==
    LET r == parse_receiver(s, msg)
    IN  IF is_ok(r) THEN Ok(FnTypeInfo(FnType(kind, r.val), TRUE, python_name))
        ELSE r

\* The Getter and Setter arms: the prefix is stripped first, when no name is
\* given, then the receiver is parsed.
accessor(s, kind, prefix, msg, python_name) ==
    IF is_none(python_name)
    THEN LET n == strip_fn_name(s, prefix)
         IN  IF is_ok(n) THEN with_receiver(s, kind, msg, unwrap(n.val)) ELSE n
    ELSE with_receiver(s, kind, msg, python_name)

\* The ClassAttribute arm without its ensure_spanned!.
class_attribute_unchecked(s, python_name) ==
    Ok(FnTypeInfo(FnType("ClassAttribute", None), FALSE, python_name))

\* The ClassAttribute arm: ensure_spanned!(sig.inputs.is_empty(), ...).
class_attribute(s, python_name) ==
    IF s.inputs = <<>>
    THEN Ok(FnTypeInfo(FnType("ClassAttribute", None), FALSE, python_name))
    ELSE Err(Span("inputs", 0), CLASSATTR_ARGS_ERR)

\* FnSpec::parse_fn_type
parse_fn_type(s, fn_type_attr, python_name) ==
    IF fn_type_attr = Some("StaticMethod")
    THEN Ok(FnTypeInfo(FnType("FnStatic", None), FALSE, python_name))
    ELSE IF fn_type_attr = Some("ClassAttribute")
    THEN class_attribute(s, python_name)
    ELSE IF fn_type_attr = Some("New")
    THEN Ok(FnTypeInfo(FnType("FnNew", None), FALSE, python_name))
    ELSE IF fn_type_attr = Some("ClassMethod")
    THEN Ok(FnTypeInfo(FnType("FnClass", None), TRUE, python_name))
    ELSE IF fn_type_attr = Some("Call")
    THEN with_receiver(s, "FnCall", RECEIVER_CALL_ERR, python_name)
    ELSE IF fn_type_attr = Some("Getter")
    THEN accessor(s, "Getter", GET_PREFIX, RECEIVER_GETTER_ERR, python_name)
    ELSE IF fn_type_attr = Some("Setter")
    THEN accessor(s, "Setter", SET_PREFIX, RECEIVER_SETTER_ERR, python_name)
    ELSE with_receiver(s, "Fn", RECEIVER_FN_ERR, python_name)

----
\* A function result together with the attribute list it leaves behind in the
\* caller's Vec (the functions below take the list by &mut).
Left(res, attrs) == [res |-> res, attrs |-> attrs]

\* An attribute that requests a generated signature text.
is_text_signature(attr) == attr.path = "text_signature"
not_text_signature(attr) == ~is_text_signature(attr)

\* utils::parse_text_signature_attrs: takes the text_signature attribute out
\* of the list and returns its text after the Python name, or None when there
\* is no such attribute.
parse_text_signature_attrs(attrs, python_name) ==
    LET found == SelectSeq(attrs, is_text_signature)
        rest == SelectSeq(attrs, not_text_signature)
    IN  IF found = <<>> THEN Left(Ok(None), attrs)
        ELSE Left(Ok(Some(to_string(python_name) \o found[1].nested[1].text)), rest)

\* One message for every kind.
text_signature_error_msg_single(kind) == TEXT_SIG_ERR

\* The message parse_text_signature passes to parse_erroneous_text_signature
\* for a kind of method that takes no text_signature.
text_signature_error_msg(kind) ==
    IF kind = "FnNew" THEN TEXT_SIG_NEW_ERR ELSE TEXT_SIG_ERR

\* The closure parse_erroneous_text_signature: the attribute is parsed
\* anyway, and is an error when it is there.
parse_erroneous_text_signature(attrs, python_name, error_msg) ==
    LET r == parse_text_signature_attrs(attrs, python_name)
    IN  IF ~is_ok(r.res) THEN r
        ELSE IF is_some(unwrap(r.res.val))
        THEN Left(Err(Span("text_signature", 0), error_msg), r.attrs)
        ELSE Left(Ok(None), r.attrs)

\* parse_text_signature that takes the attribute on every kind of method.
parse_text_signature_any_kind(attrs, fn_type, python_name) ==
    parse_text_signature_attrs(attrs, python_name)

\* FnSpec::parse_text_signature
parse_text_signature(attrs, fn_type, python_name) ==
    IF fn_type.kind \in {"Fn", "FnClass", "FnStatic"}
    THEN parse_text_signature_attrs(attrs, python_name)
    ELSE parse_erroneous_text_signature(
             attrs, python_name, text_signature_error_msg(fn_type.kind))

\* utils::get_doc: the documentation text, which opens with the signature
\* text when there is one (the doc comments are not part of this model).
get_doc(attrs, text_signature) == Ok([text_signature |-> text_signature])

\* The collection of the parameters that leaves out those of type Python.
RECURSIVE collect_args_without_python(_, _)
collect_args_without_python(inputs, i) ==
    IF i > Len(inputs) THEN Ok(<<>>)
    ELSE LET a == FnArg_parse(inputs[i], i)
         IN  IF ~is_ok(a) THEN a
             ELSE LET rest == collect_args_without_python(inputs, i + 1)
                  IN  IF ~is_ok(rest) THEN rest
                      ELSE IF unwrap(a.val).py THEN rest
                      ELSE Ok(<<unwrap(a.val)>> \o unwrap(rest.val))

\* sig.inputs.iter_mut()[.skip(1)].map(FnArg::parse).collect::<syn::Result<_>>():
\* the parsed parameters from the i-th on, or the first error.
RECURSIVE collect_args(_, _)
collect_args(inputs, i) ==
    IF i > Len(inputs) THEN Ok(<<>>)
    ELSE LET a == FnArg_parse(inputs[i], i)
         IN  IF ~is_ok(a) THEN a
             ELSE LET rest == collect_args(inputs, i + 1)
                  IN  IF is_ok(rest) THEN Ok(<<unwrap(a.val)>> \o unwrap(rest.val))
                      ELSE rest

\* syn::Ident::new("__new__", ..), syn::Ident::new("__call__", ..)
NEW_NAME == Ident(<<"_", "_", "n", "e", "w", "_", "_">>)
CALL_NAME == Ident(<<"_", "_", "c", "a", "l", "l", "_", "_">>)

\* The head of FnSpec::parse with the checks of the given name left out.
fixed_name_unchecked(fn_type_attr, python_name) ==
    IF fn_type_attr = Some("New") THEN Ok(Some(NEW_NAME))
    ELSE IF fn_type_attr = Some("Call") THEN Ok(Some(CALL_NAME))
    ELSE Ok(python_name)

\* The match on fn_type_attr at the head of FnSpec::parse: #[new] and #[call]
\* take no name and fix their own.
fixed_name(fn_type_attr, python_name) ==
    IF fn_type_attr = Some("New")
    THEN IF is_some(python_name) THEN Err(Span("python_name", 0), NAME_NEW_ERR)
         ELSE Ok(Some(NEW_NAME))
    ELSE IF fn_type_attr = Some("Call")
    THEN IF is_some(python_name) THEN Err(Span("python_name", 0), NAME_CALL_ERR)
         ELSE Ok(Some(CALL_NAME))
    ELSE Ok(python_name)

\* struct FnSpec (attrs, the argument attributes of #[args], is not modelled).
FnSpec(tp, name, python_name, args, output, doc, deprecations) ==
    [tp |-> tp, name |-> name, python_name |-> python_name, args |-> args,
     output |-> output, doc |-> doc, deprecations |-> deprecations]

\* FnSpec::parse that parses the parameters before the text_signature.
parse_tail_args_first(s, attrs, opts, info) ==
    LET name == s.ident
        ty == get_return_info(s.output)
        python_name == unraw(unwrap_or(info.python_name, name))
        arguments == collect_args(s.inputs, IF info.skip_first_arg THEN 2 ELSE 1)
        ts == parse_text_signature(attrs, info.fn_type, python_name)
        doc == get_doc(ts.attrs, unwrap(ts.res.val))
    IN  IF ~is_ok(arguments) THEN Left(arguments, attrs)
        ELSE IF ~is_ok(ts.res) THEN ts
        ELSE IF ~is_ok(doc) THEN Left(doc, ts.attrs)
        ELSE Left(Ok(FnSpec(info.fn_type, name, python_name, unwrap(arguments.val),
                            ty, unwrap(doc.val), opts.deprecations)),
                  ts.attrs)

\* FnSpec::parse from `let text_signature = ...` on: fn_type, skip_first_arg
\* and python_name are settled, attrs is what parse_method_attributes left.
parse_tail(s, attrs, opts, info) ==
    LET name == s.ident
        ty == get_return_info(s.output)
        python_name == unraw(unwrap_or(info.python_name, name))
        ts == parse_text_signature(attrs, info.fn_type, python_name)
        doc == get_doc(ts.attrs, unwrap(ts.res.val))
        arguments == collect_args(s.inputs, IF info.skip_first_arg THEN 2 ELSE 1)
    IN  IF ~is_ok(ts.res) THEN ts
        ELSE IF ~is_ok(doc) THEN Left(doc, ts.attrs)
        ELSE IF ~is_ok(arguments) THEN Left(arguments, ts.attrs)
        ELSE Left(Ok(FnSpec(info.fn_type, name, python_name, unwrap(arguments.val),
                            ty, unwrap(doc.val), opts.deprecations)),
                  ts.attrs)

\* The head of FnSpec::parse on a copy of the attribute list: the caller's
\* list is left as it was.
parse_head_on_copy(s, attrs, opts) ==
    LET ma == parse_method_attributes(attrs, opts.name)
    IN  IF ~is_ok(ma) THEN Left(ma, attrs)
        ELSE LET m == unwrap(ma.val)
                 pn == fixed_name(m.ty, m.python_name)
             IN  IF ~is_ok(pn) THEN Left(pn, attrs)
                 ELSE Left(parse_fn_type(s, m.ty, unwrap(pn.val)), attrs)

\* FnSpec::parse up to `let (fn_type, skip_first_arg) = ...?`: classification,
\* the fixed names and the kind of method with its receiver.
parse_head(s, attrs, opts) ==
    LET ma == parse_method_attributes(attrs, opts.name)
    IN  IF ~is_ok(ma) THEN Left(ma, <<>>)
        ELSE LET m == unwrap(ma.val)
                 pn == fixed_name(m.ty, m.python_name)
             IN  IF ~is_ok(pn) THEN Left(pn, m.new_attrs)
                 ELSE Left(parse_fn_type(s, m.ty, unwrap(pn.val)), m.new_attrs)

\* FnSpec::parse: the FnSpec or the first error, and the attribute list left.
FnSpec_parse(s, attrs, opts) ==
    LET head == parse_head(s, attrs, opts)
    IN  IF ~is_ok(head.res) THEN head
        ELSE parse_tail(s, head.attrs, opts, unwrap(head.res.val))

----
\* The declarations analysed.  Every sequence of attributes over AttrKinds,
\* with at most one text_signature attribute, on every signature with a name
\* of Names and parameters of the shapes ArgShapes (the i-th parameter is
\* named ai), of up to MaxSize attributes and parameters together, under every
\* PyFunctionOptions of OptionKinds.
get_x == <<"g", "e", "t", "_", "x">>
set_x == <<"s", "e", "t", "_", "x">>

Names == {Ident(get_x), Ident(set_x), Ident(GET_PREFIX), RawIdent(get_x)}

PathAttr(tag) == Attr("Path", tag, <<>>, "Outer")
ListAttr(tag, nested) == Attr("List", tag, nested, "Outer")
NameValueAttr(tag, text) == Attr("NameValue", tag, <<Nested("Str", text)>>, "Outer")

AttrKinds ==
    {PathAttr(t) : t \in {"new", "call", "classmethod", "staticmethod", "classattr",
                          "getter", "setter", "init", "inline"}}
    \cup {ListAttr("getter", <<Nested("Path", <<"y">>)>>),
          ListAttr("setter", <<Nested("Str", <<"z">>)>>),
          ListAttr("getter", <<Nested("Path", <<"a">>), Nested("Path", <<"b">>)>>)}
    \cup {NameValueAttr("text_signature", <<"(", ")">>)}

ArgShapes ==
    {[kind |-> "Receiver", mutable |-> FALSE, ty |-> "Self"],
     [kind |-> "Receiver", mutable |-> TRUE, ty |-> "Self"],
     [kind |-> "Typed", mutable |-> FALSE, ty |-> "Path"],
     [kind |-> "Typed", mutable |-> FALSE, ty |-> "ImplTrait"]}

OptionKinds == {[name |-> None, deprecations |-> <<>>],
                [name |-> Some(Ident(<<"y">>)), deprecations |-> <<>>]}

SeqsUpTo(S, n) == UNION {[1..k -> S] : k \in 0..n}

ArgName(i) == Ident(<<"a", CHOOSE d \in Digits : d = <<"0", "1", "2", "3", "4", "5", "6", "7", "8", "9">>[i + 1]>>)

Inputs(shapes) ==
    [i \in 1..Len(shapes) |->
        SynArg(shapes[i].kind, shapes[i].mutable, shapes[i].ty, "Ident", ArgName(i))]

AttrLists ==
    {as \in SeqsUpTo(AttrKinds, MaxSize) : Len(SelectSeq(as, is_text_signature)) <= 1}

Signatures(max_args) ==
    {[ident |-> n, inputs |-> Inputs(sh), output |-> "Default"] :
        n \in Names, sh \in SeqsUpTo(ArgShapes, max_args)}

Pending == [tag |-> "Pending", val |-> None, err |-> None]

----
Init ==
    /\ meth_attrs \in AttrLists
    /\ sig \in Signatures(MaxSize - Len(meth_attrs))
    /\ options \in OptionKinds
    /\ declared_attrs = meth_attrs
    /\ result = Pending
    /\ pc = "start"

\* One call FnSpec::parse(&mut sig, &mut meth_attrs, options).
Parse ==
    /\ pc = "start"
    /\ LET r == FnSpec_parse(sig, meth_attrs, options)
       IN  /\ result' = r.res
           /\ meth_attrs' = r.attrs
    /\ pc' = "done"
    /\ UNCHANGED <<sig, options, declared_attrs>>

Next == Parse

Spec == Init /\ [][Next]_vars

----
\* What the properties below are stated with.
Done == pc = "done"
\* The FnSpec produced, and the message of the error returned.
Produced == unwrap(result.val)
Diagnostic == unwrap(result.err).msg

\* The tags that name a method type, as the declaration writes them.
PathKindTags == {"new", "__new__", "call", "__call__", "classmethod",
                 "staticmethod", "classattr", "setter", "getter"}
ListKindTags == {"new", "call", "setter", "getter"}
is_kind_attr(a) ==
    \/ a.meta = "Path" /\ a.path \in PathKindTags
    \/ a.meta = "List" /\ a.path \in ListKindTags
\* The positions of the declaration's method-type annotations.
KindIdxs == {i \in 1..Len(declared_attrs) : is_kind_attr(declared_attrs[i])}
SecondKindIdx == CHOOSE j \in KindIdxs : Cardinality({i \in KindIdxs : i < j}) = 1
HasTag(tags) == \E i \in 1..Len(declared_attrs) : declared_attrs[i].path \in tags
\* An annotation that is accepted when it stands alone.
WellFormed(a) == is_ok(parse_attr(MethodAttributes(None, None, <<>>), a, 1))

\* The classification of the declaration's annotations.
Classified == parse_method_attributes(declared_attrs, options.name)
ClassifiedAs(k) == is_ok(Classified) /\ unwrap(Classified.val).ty = k
\* The declaration passes classification and the check of the fixed names.
NamesSettled ==
    /\ is_ok(Classified)
    /\ is_ok(fixed_name(unwrap(Classified.val).ty, unwrap(Classified.val).python_name))

\* The method types that take a receiver, and the message of each for a
\* declaration without parameters.
ReceiverKinds == {None, Some("Call"), Some("Getter"), Some("Setter")}
ReceiverMsg(k) ==
    IF k = None THEN RECEIVER_FN_ERR
    ELSE IF k = Some("Call") THEN RECEIVER_CALL_ERR
    ELSE IF k = Some("Getter") THEN RECEIVER_GETTER_ERR
    ELSE RECEIVER_SETTER_ERR
ReceiverMsgs == {ReceiverMsg(k) : k \in ReceiverKinds}

----
\* The annotations before the second method-type annotation classify, and
\* that annotation is accepted when it stands alone: nothing is reported
\* before the second method type is seen.
SecondKindIsFirstError ==
    /\ is_ok(parse_method_attributes(SubSeq(declared_attrs, 1, SecondKindIdx - 1),
                                     options.name))
    /\ WellFormed(declared_attrs[SecondKindIdx])

\* C1 as claimed: a declaration with two method-type annotations produces no
\* FnSpec and the error returned is "cannot specify a second method type".
C1_SecondMethodTypeDiagnostic ==
    Done /\ Cardinality(KindIdxs) >= 2 =>
        /\ result.tag = "Err"
        /\ result.val = None
        /\ Diagnostic = SECOND_TYPE_ERR

\* C1 as the code has it: a declaration with two method-type annotations
\* produces no FnSpec, FnSpec::parse returns an error, and the error is
\* "cannot specify a second method type" unless the annotations report an
\* error before the second method type is seen (#[init], a getter/setter list
\* without exactly one value, a name given twice): only the first error is
\* returned.
C1_SecondMethodTypeIsError ==
    Done /\ Cardinality(KindIdxs) >= 2 =>
        /\ result.tag = "Err"
        /\ result.val = None
        /\ SecondKindIsFirstError => Diagnostic = SECOND_TYPE_ERR

C1_Witness ==
    /\ Done
    /\ declared_attrs = <<PathAttr("classattr"), PathAttr("staticmethod")>>
    /\ result.tag = "Err"
    /\ Diagnostic = SECOND_TYPE_ERR

\* C2 as claimed: a declaration without a method-type annotation is a plain
\* method, and a declaration of a kind that takes a receiver (plain, #[call],
\* #[getter], #[setter]) that has no parameter produces no FnSpec and, when an
\* error is returned, the error is the kind's missing-receiver message.
C2_MissingReceiverDiagnostic ==
    Done =>
        /\ KindIdxs = {} /\ result.tag = "Ok" => Produced.tp.kind = "Fn"
        /\ \A k \in ReceiverKinds :
               ClassifiedAs(k) /\ sig.inputs = <<>> =>
                   /\ result.tag # "Ok"
                   /\ result.tag = "Err" => Diagnostic = ReceiverMsg(k)

\* C2 as the code has it: a declaration without a method-type annotation is a
\* plain method (FnType::Fn, with a receiver), and a declaration of a kind that
\* takes a receiver that has no parameter produces no FnSpec; the error
\* returned is the kind's missing-receiver message unless the name given to a
\* #[call] is rejected first.
C2_ReceiverRequired ==
    Done =>
        /\ KindIdxs = {} /\ is_ok(Classified) => ClassifiedAs(None)
        /\ KindIdxs = {} /\ result.tag = "Ok" =>
               Produced.tp.kind = "Fn" /\ is_some(Produced.tp.self)
        /\ \A k \in ReceiverKinds :
               ClassifiedAs(k) /\ sig.inputs = <<>> =>
                   /\ result.tag # "Ok"
                   /\ result.val = None
                   /\ result.tag = "Err" /\ NamesSettled => Diagnostic = ReceiverMsg(k)

C2_Witness ==
    /\ Done
    /\ declared_attrs = <<PathAttr("getter")>>
    /\ sig.inputs = <<>>
    /\ result.tag = "Err"
    /\ Diagnostic = RECEIVER_GETTER_ERR

\* C3 as claimed: for a kind that takes a receiver, a declaration whose first
\* parameter is an ordinary typed parameter produces no FnSpec and is reported
\* with the kind's missing-receiver message.
C3_TypedFirstParameterRejected ==
    Done =>
        \A k \in ReceiverKinds :
            /\ ClassifiedAs(k)
            /\ sig.inputs # <<>>
            /\ sig.inputs[1].kind = "Typed"
            /\ sig.inputs[1].ty = "Path"
            => /\ result.tag # "Ok"
               /\ result.tag = "Err" /\ NamesSettled => Diagnostic = ReceiverMsg(k)

\* C3 as the code has it: for a kind that takes a receiver, a first parameter
\* that is an ordinary typed parameter is the receiver, bound by
\* SelfType::TryFromPyCell and left out of FnSpec.args; a first parameter of
\* type impl Trait is rejected with IMPL_TRAIT_ERR; and a missing-receiver
\* message is returned only for a declaration without parameters.
C3_TypedFirstParameterIsReceiver ==
    Done =>
        /\ result.tag = "Err" /\ Diagnostic \in ReceiverMsgs => sig.inputs = <<>>
        /\ \A k \in ReceiverKinds :
               ClassifiedAs(k) /\ sig.inputs # <<>> /\ sig.inputs[1].kind = "Typed" =>
                   IF sig.inputs[1].ty = "ImplTrait"
                   THEN /\ result.tag # "Ok"
                        /\ result.tag = "Err" /\ NamesSettled =>
                               /\ Diagnostic = IMPL_TRAIT_ERR
                               /\ unwrap(result.err).span = Span("arg_ty", 1)
                   ELSE result.tag = "Ok" =>
                            /\ Produced.tp.self = Some(SelfType_TryFromPyCell(Span("arg_ty", 1)))
                            /\ Len(Produced.args) = Len(sig.inputs) - 1

C3_Witness ==
    /\ Done
    /\ declared_attrs = <<>>
    /\ sig.inputs # <<>>
    /\ sig.inputs[1].kind = "Typed"
    /\ sig.inputs[1].ty = "Path"
    /\ result.tag = "Ok"
    /\ Produced.tp = FnType("Fn", Some(SelfType_TryFromPyCell(Span("arg_ty", 1))))

\* C4: a declaration tagged #[classattr] that has a parameter, of any shape,
\* produces no FnSpec (the error is "class attribute methods cannot take
\* arguments" once the annotations classify), so an FnSpec of kind
\* ClassAttribute has no receiver and no parameters.
C4_ClassAttributeTakesNoParameters ==
    Done =>
        /\ HasTag({"classattr"}) /\ sig.inputs # <<>> =>
               result.tag # "Ok" /\ result.val = None
        /\ ClassifiedAs(Some("ClassAttribute")) /\ sig.inputs # <<>> =>
               result.tag = "Err" /\ Diagnostic = CLASSATTR_ARGS_ERR
        /\ result.tag = "Ok" /\ Produced.tp.kind = "ClassAttribute" =>
               /\ Produced.tp.self = None
               /\ Produced.args = <<>>
               /\ sig.inputs = <<>>

C4_Witness ==
    /\ Done
    /\ declared_attrs = <<PathAttr("classattr")>>
    /\ Len(sig.inputs) = 1
    /\ sig.inputs[1].kind = "Receiver"
    /\ result.tag = "Err"
    /\ Diagnostic = CLASSATTR_ARGS_ERR

\* C5 as claimed: a declaration of a kind that takes no receiver
\* (#[staticmethod], #[new], #[classmethod]) whose first parameter is a
\* receiver (self, &self, &mut self) produces no FnSpec.
NoReceiverKinds == {Some("StaticMethod"), Some("New"), Some("ClassMethod")}
C5_ReceiverForbidden ==
    Done =>
        \A k \in NoReceiverKinds :
            /\ ClassifiedAs(k)
            /\ sig.inputs # <<>>
            /\ sig.inputs[1].kind = "Receiver"
            => result.tag # "Ok" /\ result.val = None

\* The name given to the declaration from outside: the name of the options,
\* or the value of a #[getter(v)] / #[setter(v)].
NamedAttrs ==
    {i \in 1..Len(declared_attrs) :
        /\ declared_attrs[i].meta = "List"
        /\ declared_attrs[i].path \in {"getter", "setter"}
        /\ Len(declared_attrs[i].nested) = 1}
NameOverride ==
    IF is_some(options.name) THEN options.name
    ELSE IF NamedAttrs = {} THEN None
    ELSE Some(Ident(declared_attrs[CHOOSE i \in NamedAttrs : TRUE].nested[1].text))
\* The Python name of a property whose accessor carries the prefix: the name
\* override, else the declaration's name (its text, without r#) less the
\* prefix when it starts with the prefix, else that name.
PropertyName(prefix) ==
    IF is_some(NameOverride) THEN unwrap(NameOverride)
    ELSE IF starts_with(sig.ident.text, prefix)
    THEN Ident(SubSeq(sig.ident.text, Len(prefix) + 1, Len(sig.ident.text)))
    ELSE Ident(sig.ident.text)

\* C6: the python_name of an FnSpec of kind Getter (Setter) is the name
\* override when there is one, else the declaration's name less its get_
\* (set_) prefix when it has the prefix, else the declaration's name.
C6_PropertyName ==
    Done /\ result.tag = "Ok" =>
        /\ Produced.tp.kind = "Getter" => Produced.python_name = PropertyName(GET_PREFIX)
        /\ Produced.tp.kind = "Setter" => Produced.python_name = PropertyName(SET_PREFIX)

C6_Witness ==
    /\ Done
    /\ result.tag = "Ok"
    /\ Produced.tp.kind = "Getter"
    /\ sig.ident = Ident(get_x)
    /\ NameOverride = None
    /\ Produced.python_name = Ident(<<"x">>)

\* C7: a declaration tagged #[new] or #[call] that is given a name produces no
\* FnSpec (the error is "name not allowed with #[new]" / "... #[call]" once the
\* annotations classify), and the python_name of an FnSpec of kind FnNew is
\* __new__, of kind FnCall __call__, whatever the declaration is called.
HasKindTag(tags) ==
    \E i \in KindIdxs : declared_attrs[i].path \in tags
C7_NewAndCallNamesFixed ==
    Done =>
        /\ HasKindTag({"new", "__new__", "call", "__call__"}) /\ is_some(NameOverride) =>
               result.tag # "Ok" /\ result.val = None
        /\ ClassifiedAs(Some("New")) /\ is_some(NameOverride) =>
               result.tag = "Err" /\ Diagnostic = NAME_NEW_ERR
        /\ ClassifiedAs(Some("Call")) /\ is_some(NameOverride) =>
               result.tag = "Err" /\ Diagnostic = NAME_CALL_ERR
        /\ result.tag = "Ok" /\ Produced.tp.kind = "FnNew" => Produced.python_name = NEW_NAME
        /\ result.tag = "Ok" /\ Produced.tp.kind = "FnCall" => Produced.python_name = CALL_NAME

C7_Witness ==
    /\ Done
    /\ declared_attrs = <<PathAttr("call")>>
    /\ is_some(options.name)
    /\ result.tag = "Err"
    /\ Diagnostic = NAME_CALL_ERR

\* The kind of method the declaration is found to be, when classification,
\* the fixed names and the receiver pass.
Resolved == parse_head(sig, declared_attrs, options)
ResolvedKind == unwrap(Resolved.res.val).fn_type.kind
\* The declaration asks for a generated signature text.
Requested == \E i \in 1..Len(declared_attrs) : is_text_signature(declared_attrs[i])
SignatureKinds == {"Fn", "FnClass", "FnStatic"}
NoSignatureKinds == {"FnNew", "FnCall", "Getter", "Setter", "ClassAttribute"}
TextSigMsgs == {TEXT_SIG_NEW_ERR, TEXT_SIG_ERR}
RejectedForTextSignature == result.tag = "Err" /\ Diagnostic \in TextSigMsgs

\* C8: a declaration is rejected for its text_signature exactly when it asks
\* for one and its kind is FnNew, FnCall, Getter, Setter or ClassAttribute: a
\* declaration of such a kind that asks for one produces no FnSpec, one found
\* to be Fn, FnClass or FnStatic has the text in the FnSpec it produces, and a
\* declaration that asks for none is never rejected for it.
C8_TextSignatureByKind ==
    Done =>
        /\ ~is_ok(Resolved.res) => ~RejectedForTextSignature
        /\ is_ok(Resolved.res) =>
               /\ ResolvedKind \in SignatureKinds \cup NoSignatureKinds
               /\ RejectedForTextSignature <=> Requested /\ ResolvedKind \in NoSignatureKinds
               /\ result.tag = "Ok" =>
                      is_some(Produced.doc.text_signature)
                          <=> Requested /\ ResolvedKind \in SignatureKinds
        /\ /\ Requested
           /\ HasKindTag({"new", "__new__", "call", "__call__", "getter", "setter", "classattr"})
           => result.tag # "Ok" /\ result.val = None

C8_Witness ==
    /\ Done
    /\ declared_attrs = <<PathAttr("new"), NameValueAttr("text_signature", <<"(", ")">>)>>
    /\ result.tag = "Err"
    /\ Diagnostic = TEXT_SIG_NEW_ERR

\* C9 as claimed: the message of the error for a text_signature on a kind that
\* takes none differs from the message for each of the four other such kinds.
C9_DiagnosticsPairwiseDistinct ==
    Done /\ is_ok(Resolved.res) /\ RejectedForTextSignature =>
        \A k \in NoSignatureKinds \ {ResolvedKind} :
            Diagnostic # text_signature_error_msg(k)

\* C9 as the code has it: there are two messages.  FnNew has its own, which
\* differs from the message of each of the four other kinds; FnCall, Getter,
\* Setter and ClassAttribute share "text_signature not allowed with this
\* method type".
C9_ConstructorDiagnosticDistinct ==
    Done /\ is_ok(Resolved.res) /\ RejectedForTextSignature =>
        IF ResolvedKind = "FnNew"
        THEN /\ Diagnostic = TEXT_SIG_NEW_ERR
             /\ \A k \in NoSignatureKinds \ {"FnNew"} :
                    Diagnostic # text_signature_error_msg(k)
        ELSE /\ Diagnostic = TEXT_SIG_ERR
             /\ Diagnostic # text_signature_error_msg("FnNew")
             /\ \A k \in NoSignatureKinds \ {"FnNew"} :
                    Diagnostic = text_signature_error_msg(k)

C9_Witness ==
    /\ Done
    /\ is_ok(Resolved.res)
    /\ ResolvedKind = "Setter"
    /\ RejectedForTextSignature
    /\ Diagnostic = text_signature_error_msg("Getter")
    /\ Diagnostic # text_signature_error_msg("FnNew")

\* C10 as claimed: a declaration with a parameter of type impl Trait, in any
\* position and of any kind of method, produces no FnSpec.
C10_ImplTraitRejected ==
    Done /\ (\E i \in 1..Len(sig.inputs) : sig.inputs[i].ty = "ImplTrait") =>
        result.tag # "Ok" /\ result.val = None

----
\* The caller of FnSpec::parse for a method of a #[pymethods] block.  It
\* rejects a declaration with a generic type parameter and an asynchronous
\* declaration before the declaration is analysed (src/tests/ui/
\* invalid_pymethods.rs expects generic_method and async_method to fail).
\* The signature carries generics, the kinds of its generic parameters in
\* order ("Type" or "Lifetime"), and asyncness, whether it is an async fn.
GENERIC_ERR == "UnsupportedParameterShape: generic type parameter"
ASYNC_ERR == "UnsupportedParameterShape: asynchronous declaration"

\* check_generic that takes every generic parameter.
check_generic_lenient(s) == Ok(s)

\* A generic type parameter is an error; a lifetime is none.
check_generic(s) ==
    IF \E i \in 1..Len(s.generics) : s.generics[i] = "Type"
    THEN Err(Span("generics", CHOOSE i \in 1..Len(s.generics) :
                                  /\ s.generics[i] = "Type"
                                  /\ \A j \in 1..(i - 1) : s.generics[j] # "Type"),
             GENERIC_ERR)
    ELSE Ok(s)

\* An async fn is an error.
ensure_not_async_fn(s) ==
    IF s.asyncness THEN Err(Span("asyncness", 0), ASYNC_ERR) ELSE Ok(s)

\* The two checks, then FnSpec::parse; a declaration that fails a check
\* leaves its attribute list as it was.
gen_py_method(s, attrs, opts) ==
    IF ~is_ok(check_generic(s)) THEN Left(check_generic(s), attrs)
    ELSE IF ~is_ok(ensure_not_async_fn(s)) THEN Left(ensure_not_async_fn(s), attrs)
    ELSE FnSpec_parse(s, attrs, opts)

\* The methods analysed: every sequence of the method-type annotations on a
\* signature get_x with receivers and typed parameters, with and without
\* generic parameters, async or not.
KindAttrs ==
    {PathAttr(t) : t \in {"new", "call", "classmethod", "staticmethod", "classattr",
                          "getter", "setter"}}
PlainArgShapes ==
    {[kind |-> "Receiver", mutable |-> FALSE, ty |-> "Self"],
     [kind |-> "Typed", mutable |-> FALSE, ty |-> "Path"]}
GenericLists == {<<>>, <<"Type">>, <<"Lifetime">>, <<"Lifetime", "Type">>}
Methods(max_args) ==
    {[ident |-> Ident(get_x), inputs |-> Inputs(sh), output |-> "Default",
      generics |-> g, asyncness |-> a] :
        sh \in SeqsUpTo(PlainArgShapes, max_args), g \in GenericLists, a \in BOOLEAN}

MethodInit ==
    /\ meth_attrs \in SeqsUpTo(KindAttrs, MaxSize)
    /\ sig \in Methods(MaxSize - Len(meth_attrs))
    /\ options \in OptionKinds
    /\ declared_attrs = meth_attrs
    /\ result = Pending
    /\ pc = "start"

\* One call gen_py_method(sig, &mut meth_attrs, options).
GenPyMethod ==
    /\ pc = "start"
    /\ LET r == gen_py_method(sig, meth_attrs, options)
       IN  /\ result' = r.res
           /\ meth_attrs' = r.attrs
    /\ pc' = "done"
    /\ UNCHANGED <<sig, options, declared_attrs>>

MethodNext == GenPyMethod

MethodSpec == MethodInit /\ [][MethodNext]_vars

HasGenericType == \E i \in 1..Len(sig.generics) : sig.generics[i] = "Type"
\* What FnSpec::parse alone makes of the declaration.
Analysed == FnSpec_parse(sig, declared_attrs, options)

\* C11: a method with a generic type parameter, and an async method, produces
\* no FnSpec but an error, whatever its method type and also when
\* FnSpec::parse accepts it; every other method has the outcome of
\* FnSpec::parse.
C11_GenericAndAsyncRejected ==
    Done =>
        IF HasGenericType \/ sig.asyncness
        THEN /\ result.tag = "Err"
             /\ result.val = None
             /\ Diagnostic \in {GENERIC_ERR, ASYNC_ERR}
             /\ meth_attrs = declared_attrs
        ELSE /\ result = Analysed.res
             /\ meth_attrs = Analysed.attrs

C11_Witness ==
    /\ Done
    /\ HasGenericType
    /\ ~sig.asyncness
    /\ declared_attrs = <<PathAttr("staticmethod")>>
    /\ is_ok(Analysed.res)
    /\ result.tag = "Err"
    /\ Diagnostic = GENERIC_ERR

----
\* The messages of the syn::Error that FnSpec::parse returns.
Diagnostics == IF result.tag = "Err" THEN {unwrap(result.err).msg} ELSE {}

\* The parameters FnArg::parse is applied to, and those among them it rejects.
FirstArg == IF unwrap(Resolved.res.val).skip_first_arg THEN 2 ELSE 1
Offending(i) == ~is_ok(FnArg_parse(sig.inputs[i], i))
OffendingArgs == {i \in FirstArg..Len(sig.inputs) : Offending(i)}
\* The declaration asks for a text_signature its kind does not take.
IllegalTextSignature ==
    is_ok(Resolved.res) /\ Requested /\ ResolvedKind \in NoSignatureKinds
\* ... and has a parameter of type impl Trait after the receiver's place.
IllegalTextSignatureAndImplTrait ==
    /\ IllegalTextSignature
    /\ \E i \in FirstArg..Len(sig.inputs) : sig.inputs[i].ty = "ImplTrait"
\* A #[call] that is given a name and has no parameter, so no receiver.
NamedCallWithoutReceiver ==
    /\ ClassifiedAs(Some("Call"))
    /\ is_some(unwrap(Classified.val).python_name)
    /\ sig.inputs = <<>>

\* C12 as claimed: a declaration that breaks two rules is returned both
\* diagnostics: that of the text_signature and that of impl Trait; that of
\* the name given to #[call] and that of the missing receiver.
C12_AllDiagnosticsReturned ==
    Done =>
        /\ IllegalTextSignatureAndImplTrait =>
               {text_signature_error_msg(ResolvedKind), IMPL_TRAIT_ERR} \subseteq Diagnostics
        /\ NamedCallWithoutReceiver =>
               {NAME_CALL_ERR, RECEIVER_CALL_ERR} \subseteq Diagnostics

\* C12 as the code has it: FnSpec::parse returns the first error it meets and
\* nothing else, in the order annotations, names of #[new] and #[call], kind
\* and receiver, text_signature, parameters from left to right.  A declaration
\* with an illegal text_signature and an impl Trait parameter is returned the
\* text_signature diagnostic alone, a named #[call] without receiver the name
\* diagnostic alone, and a declaration with several parameters that
\* FnArg::parse rejects the error of the leftmost of them.
C12_FirstDiagnosticOnly ==
    Done =>
        /\ IllegalTextSignatureAndImplTrait =>
               /\ result.val = None
               /\ Diagnostics = {text_signature_error_msg(ResolvedKind)}
        /\ NamedCallWithoutReceiver =>
               /\ result.val = None
               /\ Diagnostics = {NAME_CALL_ERR}
        /\ is_ok(Resolved.res) /\ ~IllegalTextSignature /\ OffendingArgs # {} =>
               LET i == CHOOSE k \in OffendingArgs : \A j \in OffendingArgs : k <= j
               IN  /\ result.val = None
                   /\ result = FnArg_parse(sig.inputs[i], i)

C12_Witness ==
    /\ Done
    /\ IllegalTextSignatureAndImplTrait
    /\ ResolvedKind = "FnNew"
    /\ Diagnostics = {TEXT_SIG_NEW_ERR}

----
\* FnSpec::parse called twice in a row with the same sig, the same Vec
\* meth_attrs and the same options: the second call takes the list as the
\* first call left it.
ParseAgain ==
    /\ pc = "done"
    /\ LET r == FnSpec_parse(sig, meth_attrs, options)
       IN  /\ result' = r.res
           /\ meth_attrs' = r.attrs
    /\ pc' = "again"
    /\ UNCHANGED <<sig, options, declared_attrs>>

TwiceNext == Parse \/ ParseAgain

TwiceSpec == Init /\ [][TwiceNext]_vars

\* The step of the second call.
SecondCall == pc = "done" /\ pc' = "again"
\* The annotations parse_method_attributes takes out of the list: those of a
\* method type, with the name they may carry.
Passed(a) == ~is_kind_attr(a)
PassedNoTextSignature(a) == ~is_kind_attr(a) /\ ~is_text_signature(a)
\* What the first call leaves in meth_attrs: nothing when an annotation is
\* rejected (the drain is dropped), the annotations it passes through when
\* the names or the receiver are rejected, and these without the
\* text_signature once parse_text_signature has run.
Leftover ==
    IF ~is_ok(Classified) THEN <<>>
    ELSE IF ~is_ok(Resolved.res) THEN SelectSeq(declared_attrs, Passed)
    ELSE SelectSeq(declared_attrs, PassedNoTextSignature)

\* C13 as claimed: the second call has the outcome of the first.
C13_SecondCallSameOutcome ==
    [][SecondCall => result' = result]_vars

\* C13 as the code has it: the first call takes the method-type annotations
\* (and the text_signature) out of the list, so the second call analyses the
\* declaration without them, as a plain method: an FnSpec it produces has kind
\* Fn and the name of the options or of the declaration, and it reports no
\* annotation.  The two outcomes are the same when the declaration carries
\* no method-type annotation and no text_signature and the first call
\* rejects no annotation; then the list is left as it was.
C13_SecondCallOnLeftover ==
    [][SecondCall =>
        /\ meth_attrs = Leftover
        /\ \A i \in 1..Len(meth_attrs) : ~is_kind_attr(meth_attrs[i])
        /\ result'.tag \in {"Ok", "Err"}
        /\ result'.tag = "Ok" =>
               /\ unwrap(result'.val).tp.kind = "Fn"
               /\ unwrap(result'.val).python_name = unraw(unwrap_or(options.name, sig.ident))
        /\ result'.tag = "Err" =>
               unwrap(result'.err).msg \in {RECEIVER_FN_ERR, IMPL_TRAIT_ERR, UNEXPECTED_RECEIVER_ERR}
        /\ KindIdxs = {} /\ ~Requested /\ is_ok(Classified) =>
               /\ meth_attrs = declared_attrs
               /\ meth_attrs' = meth_attrs
               /\ result' = result
      ]_vars

C13_Witness ==
    /\ pc = "again"
    /\ declared_attrs = <<PathAttr("getter")>>
    /\ Analysed.res.tag = "Ok"
    /\ unwrap(Analysed.res.val).tp.kind = "Getter"
    /\ unwrap(Analysed.res.val).python_name = Ident(<<"x">>)
    /\ result.tag = "Ok"
    /\ Produced.tp.kind = "Fn"
    /\ Produced.python_name = Ident(get_x)

----
\* Declarations with annotations in the list form #[tag(v, ...)]: getter and
\* setter with one value (a name, a string, a string that is no identifier, a
\* number, a path a::b), with no value and with two, and the tags new, call,
\* classattr, staticmethod and classmethod with a value, next to the plain
\* #[getter], #[setter] and #[staticmethod].
foobar == <<"f", "o", "o", "b", "a", "r">>
NestedAttrKinds ==
    {ListAttr("getter", <<Nested("Path", <<"y">>)>>),
     ListAttr("setter", <<Nested("Str", <<"z">>)>>),
     ListAttr("setter", <<Nested("Str", <<"1">>)>>),
     ListAttr("getter", <<Nested("Lit", <<"1">>)>>),
     ListAttr("setter", <<Nested("Other", <<"a", ":", ":", "b">>)>>),
     ListAttr("getter", <<>>),
     ListAttr("setter", <<Nested("Path", <<"a">>), Nested("Path", <<"b">>)>>),
     ListAttr("new", <<Nested("Path", <<"x">>)>>),
     ListAttr("call", <<Nested("Path", <<"x">>)>>),
     ListAttr("classattr", <<Nested("Path", foobar)>>),
     ListAttr("staticmethod", <<Nested("Path", <<"x">>)>>),
     ListAttr("classmethod", <<Nested("Path", <<"x">>)>>),
     PathAttr("getter"), PathAttr("setter"), PathAttr("staticmethod")}

NestedInit ==
    /\ meth_attrs \in SeqsUpTo(NestedAttrKinds, MaxSize)
    /\ sig \in Signatures(MaxSize - Len(meth_attrs))
    /\ options \in OptionKinds
    /\ declared_attrs = meth_attrs
    /\ result = Pending
    /\ pc = "start"

NestedSpec == NestedInit /\ [][Next]_vars

\* The annotations of the list form, by what they carry.
is_accessor_list(a) == a.meta = "List" /\ a.path \in {"getter", "setter"}
\* A value that names a property: a name, or a string that is an identifier.
is_name_value(v) == v.kind = "Path" \/ (v.kind = "Str" /\ is_ident_text(v.text))
is_named_accessor(a) ==
    is_accessor_list(a) /\ Len(a.nested) = 1 /\ is_name_value(a.nested[1])
\* The tags that take no value, with one.
is_valued_kind(a) ==
    /\ a.meta = "List"
    /\ a.path \in {"new", "call", "classattr", "staticmethod", "classmethod"}
    /\ a.nested # <<>>
\* Among them, those parse_method_attributes knows in the list form, and
\* those it does not.
is_valued_new_or_call(a) == is_valued_kind(a) /\ a.path \in {"new", "call"}
is_valued_other(a) == is_valued_kind(a) /\ a.path \notin {"new", "call"}
not_valued_other(a) == ~is_valued_other(a)
AttrIdxs == 1..Len(declared_attrs)
AccessorKind(a) == IF a.path = "getter" THEN "Getter" ELSE "Setter"
\* The i-th annotation is the only one, and no name comes with the options.
OnlyAnnotation(i) == Len(declared_attrs) = 1 /\ i = 1 /\ is_none(options.name)
\* The annotations with the value of new(..) and call(..) taken away.
Unvalued(a) == IF is_valued_new_or_call(a) THEN PathAttr(a.path) ELSE a
UnvaluedAttrs == [i \in AttrIdxs |-> Unvalued(declared_attrs[i])]

\* What C14 says of getter and setter in the list form: with one value that
\* names a property the annotation sets the kind and the name (alone on a
\* declaration it is accepted by the classification, and an FnSpec produced
\* has the kind and the name); with one value of another shape, with no
\* value or with several, no FnSpec is produced, and the error is
\* "setter/getter requires one value" when the count is the first thing
\* wrong.
AccessorListRules ==
    \A i \in AttrIdxs :
        LET a == declared_attrs[i]
        IN  /\ is_named_accessor(a) /\ is_ok(Classified) =>
                   /\ unwrap(Classified.val).ty = Some(AccessorKind(a))
                   /\ unwrap(Classified.val).python_name = Some(Ident(a.nested[1].text))
            /\ is_named_accessor(a) /\ OnlyAnnotation(i) =>
                   /\ is_ok(Classified)
                   /\ result.tag = "Ok" =>
                          /\ Produced.tp.kind = AccessorKind(a)
                          /\ Produced.python_name = Ident(a.nested[1].text)
            /\ is_accessor_list(a) /\ ~is_named_accessor(a) =>
                   result.tag # "Ok" /\ result.val = None
            /\ /\ is_accessor_list(a)
               /\ Len(a.nested) # 1
               /\ is_ok(parse_method_attributes(SubSeq(declared_attrs, 1, i - 1),
                                                options.name))
               => result.tag = "Err" /\ Diagnostic = ONE_VALUE_ERR

\* C14 as claimed: the rules of getter and setter, and a declaration with a
\* value on new, call, classattr, staticmethod or classmethod produces no
\* FnSpec.
C14_NestedValueRejected ==
    Done =>
        /\ AccessorListRules
        /\ (\E i \in AttrIdxs : is_valued_kind(declared_attrs[i])) =>
               result.tag # "Ok" /\ result.val = None

\* C14 as the code has it: the rules of getter and setter; the value of
\* new(..) and call(..) is ignored, the declaration has the outcome it has
\* with #[new] and #[call]; and classattr(..), staticmethod(..) and
\* classmethod(..) are no method-type annotations: they set no kind and
\* stay in the attribute list with the attributes that are passed through.
C14_NestedValueOfAccessorsOnly ==
    Done =>
        /\ AccessorListRules
        /\ result = FnSpec_parse(sig, UnvaluedAttrs, options).res
        /\ is_ok(Classified) =>
               /\ SelectSeq(unwrap(Classified.val).new_attrs, is_valued_other)
                      = SelectSeq(declared_attrs, is_valued_other)
               /\ LET rest == parse_method_attributes(
                                   SelectSeq(declared_attrs, not_valued_other), options.name)
                  IN  /\ is_ok(rest)
                      /\ unwrap(Classified.val).ty = unwrap(rest.val).ty
                      /\ unwrap(Classified.val).python_name = unwrap(rest.val).python_name
        /\ result.tag = "Ok" =>
               SelectSeq(meth_attrs, is_valued_other)
                   = SelectSeq(declared_attrs, is_valued_other)

C14_Witness ==
    /\ Done
    /\ declared_attrs = <<ListAttr("classattr", <<Nested("Path", foobar)>>)>>
    /\ Len(sig.inputs) = 1
    /\ result.tag = "Ok"
    /\ Produced.tp.kind = "Fn"
    /\ meth_attrs = declared_attrs

----
\* C15 as claimed: every declaration ends in an FnSpec or in an error, and
\* the python_name of an FnSpec is not empty; so for a #[getter] named get_
\* and a #[setter] named set_ that are given no name.
C15_NamedOrRejected ==
    Done =>
        /\ result.tag \in {"Ok", "Err"}
        /\ result.tag = "Ok" => Produced.python_name.text # <<>>

----
\* Declarations with parameters of type Python<'_> among receivers and
\* other typed parameters, of every kind of method.
ContextArgShapes ==
    {[kind |-> "Receiver", mutable |-> FALSE, ty |-> "Self"],
     [kind |-> "Typed", mutable |-> FALSE, ty |-> "Path"],
     [kind |-> "Typed", mutable |-> FALSE, ty |-> "Python"]}
ContextSignatures(max_args) ==
    {[ident |-> n, inputs |-> Inputs(sh), output |-> "Default"] :
        n \in Names, sh \in SeqsUpTo(ContextArgShapes, max_args)}

ContextInit ==
    /\ meth_attrs \in SeqsUpTo(KindAttrs, MaxSize)
    /\ sig \in ContextSignatures(MaxSize - Len(meth_attrs))
    /\ options \in OptionKinds
    /\ declared_attrs = meth_attrs
    /\ result = Pending
    /\ pc = "start"

ContextSpec == ContextInit /\ [][Next]_vars

\* The names of a sequence of parameters, declared or parsed.
ArgNames(args) == [i \in 1..Len(args) |-> args[i].name]
not_context_handle(arg) == arg.ty # "Python"
\* The declared parameters without the first.
AfterFirst == SubSeq(sig.inputs, 2, Len(sig.inputs))

\* C16 as claimed: the parameters of the FnSpec are the declared parameters
\* in order, without the first exactly when the FnSpec has a receiver and
\* without those of type Python.
C16_ReceiverAndHandlesRemoved ==
    Done /\ result.tag = "Ok" =>
        ArgNames(Produced.args)
            = ArgNames(SelectSeq(IF is_some(Produced.tp.self) THEN AfterFirst ELSE sig.inputs,
                                 not_context_handle))

\* C16 as the code has it: the parameters of the FnSpec are the declared
\* parameters in order, without the first exactly when the kind is Fn,
\* FnCall, Getter or Setter (whose first parameter is the receiver) or
\* FnClass (whose first parameter, the class, is no receiver: tp has no
\* SelfType); a parameter of type Python is kept, with py set, and py is set
\* on no other.
SkipFirstKinds == {"Fn", "FnCall", "Getter", "Setter", "FnClass"}
C16_ArgsAfterFirstSlot ==
    Done /\ result.tag = "Ok" =>
        LET rest == IF Produced.tp.kind \in SkipFirstKinds THEN AfterFirst ELSE sig.inputs
        IN  /\ Produced.args =
                   [i \in 1..Len(rest) |->
                       [name |-> rest[i].name, ty |-> rest[i].ty, py |-> rest[i].ty = "Python"]]
            /\ is_some(Produced.tp.self) <=> Produced.tp.kind \in SkipFirstKinds \ {"FnClass"}
            /\ Produced.tp.kind \in SkipFirstKinds \ {"FnClass"} => sig.inputs # <<>>

C16_Witness ==
    /\ Done
    /\ result.tag = "Ok"
    /\ Produced.tp.kind = "Fn"
    /\ Len(sig.inputs) = 3
    /\ sig.inputs[2].ty = "Python"
    /\ sig.inputs[3].ty = "Path"
    /\ ArgNames(Produced.args) = <<ArgName(2), ArgName(3)>>
    /\ Produced.args[1].py
    /\ ~Produced.args[2].py

====
